---------------------------- MODULE Spec2Model ----------------------------
(***************************************************************************)
(* Model of jira_mcp/server.py: ten read-only Jira tools, each building a  *)
(* query-parameter mapping and handing it to _get, which builds a session, *)
(* resolves the base URL, issues one GET, checks the status and decodes    *)
(* the JSON body.                                                          *)
(*                                                                         *)
(* Text is a sequence of fragments (\o is concatenation, <<>> is ""): the  *)
(* JIRA_URL values are spelled one character per fragment so that rstrip   *)
(* and startswith work on characters; the fixed endpoint paths are single  *)
(* fragments.  A Python value that may be None is None == <<>> or          *)
(* Some(v) == <<v>>.                                                       *)
(*                                                                         *)
(* Every record constructor lists its fields in the order in which the     *)
(* field names first occur in this module: TLC then has nothing to sort    *)
(* when several workers build the same record.                             *)
(***************************************************************************)
EXTENDS Integers, Sequences, FiniteSets, Bags, TLC

VARIABLES
    environ,    \* os.environ: JIRA_URL, JIRA_EMAIL, JIRA_API_TOKEN
    inv,        \* the tool invocations in progress, one frame per host thread
    log,        \* the HTTP requests issued so far (the transport's calls, a bag)
    sessions,   \* the requests.Session objects constructed so far
    calls       \* tool invocations started so far

vars == <<environ, inv, log, sessions, calls>>

\* ------------------------------------------------------------------ bounds

MaxCalls == 2       \* tool invocations per behaviour
MaxThreads == 2     \* invocations the host may have in flight at once
MaxTail == 2        \* characters after the scheme part of a JIRA_URL value

Threads == 1..MaxThreads

\* ------------------------------------------------------------- text, None

None == <<>>
Some(v) == <<v>>

\* Python truthiness of a str | None: None and "" are falsy.
Truthy(o) == o # None /\ o[1] # <<>>

\* A caller-supplied argument, or the signature's default when omitted.
Default(o, d) == IF o = None THEN d ELSE o[1]

EmptyMap == [k \in {} |-> 0]

\* A frame of the host: idle, or one tool invocation on its way through
\* the tool function and _get.
Idle ==
    [pc |-> "idle", id |-> 0, tool |-> "", args |-> EmptyMap,
     path |-> <<>>, params |-> EmptyMap,
     session |-> None, base |-> None, request |-> None, reply |-> None,
     decoded |-> FALSE, result |-> None, error |-> ""]

\* The arguments of the tools and the query key each is sent under (None
\* for an argument that goes into the path).
ArgKey ==
    [jql |-> Some("jql"), issue_key |-> None, board_id |-> None, sprint_id |-> None,
     query |-> Some("query"), project_key_or_id |-> Some("projectKeyOrId"),
     board_type |-> Some("type"), name |-> Some("name"), state |-> Some("state"),
     fields |-> Some("fields"), expand |-> Some("expand"),
     max_results |-> Some("maxResults"), start_at |-> Some("startAt"),
     order_by |-> Some("orderBy")]

RECURSIVE Chars(_, _)
\* All texts of at most n characters over the alphabet a.
Chars(a, n) ==
    IF n = 0 THEN {<<>>}
    ELSE LET shorter == Chars(a, n - 1)
         IN  shorter \cup {s \o <<c>> : s \in shorter, c \in a}

RECURSIVE rstrip(_, _)
\* str.rstrip(c): drop every trailing occurrence of the character c.
rstrip(s, c) ==
    IF s # <<>> /\ s[Len(s)] = c THEN rstrip(SubSeq(s, 1, Len(s) - 1), c) ELSE s

startswith(s, p) == Len(s) >= Len(p) /\ SubSeq(s, 1, Len(p)) = p

https == <<"h", "t", "t", "p", "s", ":", "/", "/">>
http == <<"h", "t", "t", "p", ":", "/", "/">>

Digit == <<"0", "1", "2", "3", "4", "5", "6", "7", "8", "9">>

RECURSIVE digits(_)
digits(n) ==
    IF n < 10 THEN <<Digit[n + 1]>> ELSE digits(n \div 10) \o <<Digit[(n % 10) + 1]>>

\* The f-string conversion of an int path parameter: its decimal spelling.
fstr(n) == IF n < 0 THEN <<"-">> \o digits(-n) ELSE digits(n)

\* ---------------------------------------------------------- configuration

RuntimeError_url == "RuntimeError: JIRA_URL environment variable is not set"
RuntimeError_auth ==
    "RuntimeError: JIRA_EMAIL and JIRA_API_TOKEN environment variables must be set"

\* `if not url`: the variable is absent or empty.
base_url_raises(e) == ~Truthy(e.JIRA_URL)

\* _base_url() past its guard: strip trailing slashes, then add a scheme.
base_url_value(e) ==
    LET stripped == rstrip(e.JIRA_URL[1], "/")
    IN  IF ~startswith(stripped, https) /\ ~startswith(stripped, http)
        THEN https \o stripped
        ELSE stripped

_base_url(e) ==
    IF base_url_raises(e)
    THEN [ok |-> FALSE, err |-> RuntimeError_url]
    ELSE [ok |-> TRUE, val |-> base_url_value(e)]

\* A _session that skips the credential check (auth=(email, token) as read).
_session_unchecked(e, sid) ==
    [ok |-> TRUE,
     val |-> [sid |-> sid, auth |-> <<e.JIRA_EMAIL, e.JIRA_API_TOKEN>>,
              headers |-> [Accept |-> "application/json"]]]

\* A _session that hands out one module-level Session to every caller.
_session_shared(e, sid) ==
    [ok |-> TRUE,
     val |-> [sid |-> 1, auth |-> <<e.JIRA_EMAIL[1], e.JIRA_API_TOKEN[1]>>,
              headers |-> [Accept |-> "application/json"]]]

\* `if not email or not token`.
session_raises(e) == ~Truthy(e.JIRA_EMAIL) \/ ~Truthy(e.JIRA_API_TOKEN)

\* _session(): a fresh requests.Session carrying the credentials and header.
_session(e, sid) ==
    IF session_raises(e)
    THEN [ok |-> FALSE, err |-> RuntimeError_auth]
    ELSE [ok |-> TRUE,
          val |-> [sid |-> sid,
                   auth |-> <<e.JIRA_EMAIL[1], e.JIRA_API_TOKEN[1]>>,
                   headers |-> [Accept |-> "application/json"]]]


\* ------------------------------------------------------ query parameters

\* d[k] = v, on a dict d
put(d, k, v) == [x \in DOMAIN d \cup {k} |-> IF x = k THEN v ELSE d[x]]

\* d[k] = v or ""
put_or_empty(d, k, v) == put(d, k, IF Truthy(v) THEN v[1] ELSE <<>>)

\* if v is not None: d[k] = v
put_if_not_none(d, k, v) == IF v # None THEN put(d, k, v[1]) ELSE d

\* if v: d[k] = v
put_if(d, k, v) == IF Truthy(v) THEN put(d, k, v[1]) ELSE d

\* What a tool function hands to _get.
Request(path, params) == [path |-> path, params |-> params]

\* ------------------------------------------------------------------ tools
\* Each operator is the body of one tool function: its arguments are what
\* the caller supplied (None for an omitted one), its value is the path and
\* the params it passes to _get.

\* A search_issues that clamps max_results to the documented 1-100.
search_issues_clamped(jql, fields, max_results, start_at) ==
    LET given == Default(max_results, 50)
        clamped == IF given > 100 THEN 100 ELSE IF given < 1 THEN 1 ELSE given
        params == put(put(put(EmptyMap, "jql", jql), "maxResults", clamped),
                      "startAt", Default(start_at, 0))
    IN  Request(<<"/rest/api/3/search/jql">>, put_if(params, "fields", fields))

search_issues(jql, fields, max_results, start_at) ==
    LET params == put(put(put(EmptyMap, "jql", jql),
                          "maxResults", Default(max_results, 50)),
                      "startAt", Default(start_at, 0))
    IN  Request(<<"/rest/api/3/search/jql">>, put_if(params, "fields", fields))

get_issue(issue_key, fields, expand) ==
    Request(<<"/rest/api/3/issue/">> \o issue_key,
            put_if(put_if(EmptyMap, "fields", fields), "expand", expand))

get_issue_comments(issue_key, max_results, start_at, order_by) ==
    Request(<<"/rest/api/3/issue/">> \o issue_key \o <<"/comment">>,
            put(put(put(EmptyMap, "maxResults", Default(max_results, 50)),
                    "startAt", Default(start_at, 0)),
                "orderBy", Default(order_by, <<"-created">>)))

get_issue_changelog(issue_key, max_results, start_at) ==
    Request(<<"/rest/api/3/issue/">> \o issue_key \o <<"/changelog">>,
            put(put(EmptyMap, "maxResults", Default(max_results, 50)),
                "startAt", Default(start_at, 0)))

\* _get is called without params: its default None, no query string.
get_issue_transitions(issue_key) ==
    Request(<<"/rest/api/3/issue/">> \o issue_key \o <<"/transitions">>, EmptyMap)

list_projects(query, max_results, start_at) ==
    LET params == put(put(EmptyMap, "maxResults", Default(max_results, 50)),
                      "startAt", Default(start_at, 0))
    IN  Request(<<"/rest/api/3/project/search">>, put_if(params, "query", query))

list_boards(project_key_or_id, board_type, name, max_results, start_at) ==
    LET params == put(put(EmptyMap, "maxResults", Default(max_results, 50)),
                      "startAt", Default(start_at, 0))
    IN  Request(<<"/rest/agile/1.0/board">>,
                put_if(put_if(put_if(params, "projectKeyOrId", project_key_or_id),
                              "type", board_type),
                       "name", name))

list_sprints(board_id, state, max_results, start_at) ==
    LET params == put(put(EmptyMap, "maxResults", Default(max_results, 50)),
                      "startAt", Default(start_at, 0))
    IN  Request(<<"/rest/agile/1.0/board/">> \o fstr(board_id) \o <<"/sprint">>,
                put_if(params, "state", state))

get_sprint_issues(sprint_id, fields, max_results, start_at) ==
    LET params == put(put(EmptyMap, "maxResults", Default(max_results, 50)),
                      "startAt", Default(start_at, 0))
    IN  Request(<<"/rest/agile/1.0/sprint/">> \o fstr(sprint_id) \o <<"/issue">>,
                put_if(params, "fields", fields))

search_users(query, max_results) ==
    Request(<<"/rest/api/3/user/search">>,
            put(put(EmptyMap, "query", query),
                "maxResults", Default(max_results, 10)))

\* ------------------------------------------------------- the HTTP response

\* A status check that raises for server errors only.
raise_for_status_5xx(status) == 500 <= status /\ status < 600

\* Response.raise_for_status(): HTTPError for a client or server error status.
raise_for_status(status) == 400 <= status /\ status < 600

\* The response bodies the server may send, and Response.json() of each.
Bodies == {"{\"total\": 1, \"isLast\": true}", "[]", "<html>"}

json(body) ==
    CASE body = "{\"total\": 1, \"isLast\": true}" ->
             [ok |-> TRUE, val |-> [total |-> 1, isLast |-> TRUE]]
      [] body = "[]" -> [ok |-> TRUE, val |-> <<>>]
      [] OTHER -> [ok |-> FALSE, err |-> "JSONDecodeError"]

Statuses == {100, 199, 200, 299, 300, 304, 399, 400, 404, 500, 599}

\* ------------------------------------------------------------ invocations

\* The host calls a tool in its first free thread: the function body runs up
\* to its call of _get.
Free(i) ==
    /\ inv[i].pc = "idle"
    /\ \A j \in 1..(i - 1) : inv[j].pc # "idle"
    /\ calls < MaxCalls

Invoke(i, tool, args, rq) ==
    inv' = [inv EXCEPT ![i] = [Idle EXCEPT !.pc = "called", !.id = calls + 1,
                                           !.tool = tool, !.args = args,
                                           !.path = rq.path, !.params = rq.params]]

\* The argument values a caller may pass: required text, optional text,
\* an optional int, (max_results, start_at) pairs, issue keys, board and
\* sprint ids, order_by; and the replies the server may give.
Rich ==
    [status |-> Statuses,
     body |-> Bodies,
     str |-> {<<>>, <<"project = X">>},
     opt |-> {None, Some(<<>>), Some(<<"summary,status">>)},
     int |-> {None, Some(-1), Some(0), Some(200)},
     page |-> {<<None, None>>, <<Some(0), Some(20)>>, <<Some(200), None>>,
               <<Some(-1), Some(0)>>},
     key |-> {<<"PROJ-123">>, <<>>},
     num |-> {-3, 45},
     ord |-> {None, Some(<<>>), Some(<<"+created">>)}]

Lean ==
    [status |-> {200, 404},
     body |-> {"[]"},
     str |-> {<<"project = X">>},
     opt |-> {None, Some(<<"summary,status">>)},
     int |-> {None},
     page |-> {<<None, None>>},
     key |-> {<<"PROJ-123">>},
     num |-> {45},
     ord |-> {None}]

Call_search_issues(i, D) ==
    /\ Free(i)
    /\ \E jql \in D.str, fields \in D.opt, page \in D.page :
           Invoke(i, "search_issues",
                  [jql |-> Some(jql), fields |-> fields,
                   max_results |-> page[1], start_at |-> page[2]],
                  search_issues(jql, fields, page[1], page[2]))
    /\ calls' = calls + 1
    /\ UNCHANGED <<environ, log, sessions>>

Call_get_issue(i, D) ==
    /\ Free(i)
    /\ \E issue_key \in D.key, fields \in D.opt, expand \in D.opt :
           Invoke(i, "get_issue",
                  [issue_key |-> Some(issue_key), fields |-> fields, expand |-> expand],
                  get_issue(issue_key, fields, expand))
    /\ calls' = calls + 1
    /\ UNCHANGED <<environ, log, sessions>>

Call_get_issue_comments(i, D) ==
    /\ Free(i)
    /\ \E issue_key \in D.key, page \in D.page,
          order_by \in D.ord :
           Invoke(i, "get_issue_comments",
                  [issue_key |-> Some(issue_key), max_results |-> page[1],
                   start_at |-> page[2], order_by |-> order_by],
                  get_issue_comments(issue_key, page[1], page[2], order_by))
    /\ calls' = calls + 1
    /\ UNCHANGED <<environ, log, sessions>>

Call_get_issue_changelog(i, D) ==
    /\ Free(i)
    /\ \E issue_key \in D.key, page \in D.page :
           Invoke(i, "get_issue_changelog",
                  [issue_key |-> Some(issue_key), max_results |-> page[1],
                   start_at |-> page[2]],
                  get_issue_changelog(issue_key, page[1], page[2]))
    /\ calls' = calls + 1
    /\ UNCHANGED <<environ, log, sessions>>

Call_get_issue_transitions(i, D) ==
    /\ Free(i)
    /\ \E issue_key \in D.key :
           Invoke(i, "get_issue_transitions", [issue_key |-> Some(issue_key)],
                  get_issue_transitions(issue_key))
    /\ calls' = calls + 1
    /\ UNCHANGED <<environ, log, sessions>>

Call_list_projects(i, D) ==
    /\ Free(i)
    /\ \E query \in D.opt, page \in D.page :
           Invoke(i, "list_projects",
                  [query |-> query, max_results |-> page[1], start_at |-> page[2]],
                  list_projects(query, page[1], page[2]))
    /\ calls' = calls + 1
    /\ UNCHANGED <<environ, log, sessions>>

Call_list_boards(i, D) ==
    /\ Free(i)
    /\ \E project_key_or_id \in D.opt, board_type \in D.opt, name \in D.opt,
          page \in D.page :
           Invoke(i, "list_boards",
                  [project_key_or_id |-> project_key_or_id, board_type |-> board_type,
                   name |-> name, max_results |-> page[1], start_at |-> page[2]],
                  list_boards(project_key_or_id, board_type, name, page[1], page[2]))
    /\ calls' = calls + 1
    /\ UNCHANGED <<environ, log, sessions>>

Call_list_sprints(i, D) ==
    /\ Free(i)
    /\ \E board_id \in D.num, state \in D.opt, page \in D.page :
           Invoke(i, "list_sprints",
                  [board_id |-> Some(board_id), state |-> state,
                   max_results |-> page[1], start_at |-> page[2]],
                  list_sprints(board_id, state, page[1], page[2]))
    /\ calls' = calls + 1
    /\ UNCHANGED <<environ, log, sessions>>

Call_get_sprint_issues(i, D) ==
    /\ Free(i)
    /\ \E sprint_id \in D.num, fields \in D.opt, page \in D.page :
           Invoke(i, "get_sprint_issues",
                  [sprint_id |-> Some(sprint_id), fields |-> fields,
                   max_results |-> page[1], start_at |-> page[2]],
                  get_sprint_issues(sprint_id, fields, page[1], page[2]))
    /\ calls' = calls + 1
    /\ UNCHANGED <<environ, log, sessions>>

Call_search_users(i, D) ==
    /\ Free(i)
    /\ \E query \in D.str, max_results \in D.int :
           Invoke(i, "search_users",
                  [query |-> Some(query), max_results |-> max_results],
                  search_users(query, max_results))
    /\ calls' = calls + 1
    /\ UNCHANGED <<environ, log, sessions>>

\* ------------------------------------------------------------------- _get

Raise(i, err) == inv' = [inv EXCEPT ![i].pc = "error", ![i].error = err]

\* _session() is evaluated first: it raises, or constructs a new Session.
Get_session(i) ==
    /\ inv[i].pc = "called"
    /\ LET r == _session(environ, Len(sessions) + 1)
       IN  IF r.ok
           THEN /\ sessions' = Append(sessions, r.val)
                /\ inv' = [inv EXCEPT ![i].pc = "session", ![i].session = Some(r.val)]
           ELSE /\ Raise(i, r.err)
                /\ UNCHANGED sessions
    /\ UNCHANGED <<environ, log, calls>>

\* Then the URL argument f"{_base_url()}{path}" is evaluated.
Get_base_url(i) ==
    /\ inv[i].pc = "session"
    /\ LET r == _base_url(environ)
       IN  IF r.ok
           THEN inv' = [inv EXCEPT ![i].pc = "ready", ![i].base = Some(r.val)]
           ELSE Raise(i, r.err)
    /\ UNCHANGED <<environ, log, sessions, calls>>

\* Session.get(url, params=params): the one request of the invocation.
Get_send(i) ==
    /\ inv[i].pc = "ready"
    /\ log' = log (+) SetToBag({[id |-> inv[i].id, method |-> "GET"]})
    /\ inv' = [inv EXCEPT ![i].pc = "sent",
                          ![i].request =
                              Some([params |-> inv[i].params,
                                    sid |-> inv[i].session[1].sid,
                                    auth |-> inv[i].session[1].auth,
                                    headers |-> inv[i].session[1].headers,
                                    method |-> "GET",
                                    url |-> inv[i].base[1] \o inv[i].path])]
    /\ UNCHANGED <<environ, sessions, calls>>

\* The server answers with some status and body.
Get_response(i, D) ==
    /\ inv[i].pc = "sent"
    /\ \E status \in D.status, body \in D.body :
           inv' = [inv EXCEPT ![i].pc = "received",
                              ![i].reply = Some([status |-> status, body |-> body])]
    /\ UNCHANGED <<environ, log, sessions, calls>>

\* A _get that tries again when the request cannot complete.
Get_transport_error_retry(i) ==
    /\ inv[i].pc = "sent"
    /\ inv' = [inv EXCEPT ![i].pc = "ready"]
    /\ UNCHANGED <<environ, log, sessions, calls>>

\* The request cannot complete: Session.get raises and _get propagates it.
Get_transport_error(i) ==
    /\ inv[i].pc = "sent"
    /\ Raise(i, "ConnectionError")
    /\ UNCHANGED <<environ, log, sessions, calls>>

\* resp.raise_for_status()
Get_raise_for_status(i) ==
    /\ inv[i].pc = "received"
    /\ IF raise_for_status(inv[i].reply[1].status)
       THEN Raise(i, "HTTPError")
       ELSE inv' = [inv EXCEPT ![i].pc = "checked"]
    /\ UNCHANGED <<environ, log, sessions, calls>>

\* A _get that wraps the decoded body before returning it.
Get_json_wrapped(i) ==
    /\ inv[i].pc = "checked"
    /\ LET r == json(inv[i].reply[1].body)
       IN  IF r.ok
           THEN inv' = [inv EXCEPT ![i].pc = "returned", ![i].decoded = TRUE,
                                   ![i].result = Some([data |-> r.val])]
           ELSE inv' = [inv EXCEPT ![i].pc = "error", ![i].decoded = TRUE,
                                   ![i].error = r.err]
    /\ UNCHANGED <<environ, log, sessions, calls>>

\* return resp.json(), which the tool function returns in turn.
Get_json(i) ==
    /\ inv[i].pc = "checked"
    /\ LET r == json(inv[i].reply[1].body)
       IN  IF r.ok
           THEN inv' = [inv EXCEPT ![i].pc = "returned", ![i].decoded = TRUE,
                                   ![i].result = Some(r.val)]
           ELSE inv' = [inv EXCEPT ![i].pc = "error", ![i].decoded = TRUE,
                                   ![i].error = r.err]
    /\ UNCHANGED <<environ, log, sessions, calls>>

\* The host takes the value or the error; the frame is free again.
Deliver(i) ==
    /\ inv[i].pc \in {"returned", "error"}
    /\ inv' = [inv EXCEPT ![i] = Idle]
    /\ UNCHANGED <<environ, log, sessions, calls>>

\* --------------------------------------------------------- specifications

OptText(ts) == {None} \cup {Some(t) : t \in ts}

Full ==
    [JIRA_URL |-> Some(https \o <<"j", "/">>),
     JIRA_EMAIL |-> Some(<<"me@example.com">>),
     JIRA_API_TOKEN |-> Some(<<"secret">>)]

Names == {"JIRA_URL", "JIRA_EMAIL", "JIRA_API_TOKEN"}

\* Every variable set; one of them absent, or empty; none set.
Environs ==
    {Full, [n \in Names |-> None]}
        \cup {[Full EXCEPT ![n] = v] : n \in Names, v \in {None, Some(<<>>)}}

InitWith(es) ==
    /\ environ \in es
    /\ inv = [i \in Threads |-> Idle]
    /\ log = EmptyBag
    /\ sessions = <<>>
    /\ calls = 0

Init == InitWith(Environs)

\* Single-threaded host (spec section 5): every invocation runs in thread
\* 1, one at a time, with any arguments and any reply.
Next ==
    \/ Call_search_issues(1, Rich)
    \/ Call_get_issue(1, Rich)
    \/ Call_get_issue_comments(1, Rich)
    \/ Call_get_issue_changelog(1, Rich)
    \/ Call_get_issue_transitions(1, Rich)
    \/ Call_list_projects(1, Rich)
    \/ Call_list_boards(1, Rich)
    \/ Call_list_sprints(1, Rich)
    \/ Call_get_sprint_issues(1, Rich)
    \/ Call_search_users(1, Rich)
    \/ Get_session(1)
    \/ Get_base_url(1)
    \/ Get_send(1)
    \/ Get_response(1, Rich)
    \/ Get_transport_error(1)
    \/ Get_raise_for_status(1)
    \/ Get_json(1)
    \/ Deliver(1)

Spec == Init /\ [][Next]_vars

\* A host that runs invocations concurrently, in any interleaving of the
\* steps of _get.
InitConc == InitWith({Full, [Full EXCEPT !.JIRA_URL = None]})

NextConc ==
    \E i \in Threads :
        \/ Call_search_issues(i, Lean)
        \/ Call_get_issue_transitions(i, Lean)
        \/ Call_list_sprints(i, Lean)
        \/ Get_session(i)
        \/ Get_base_url(i)
        \/ Get_send(i)
        \/ Get_response(i, Lean)
        \/ Get_transport_error(i)
        \/ Get_raise_for_status(i)
        \/ Get_json(i)
        \/ Deliver(i)

SpecConc == InitConc /\ [][NextConc]_vars

\* Base-URL resolution over many JIRA_URL values: an optional scheme-like
\* prefix followed by at most MaxTail characters.
Prefixes ==
    {<<>>, http, https,
     <<"h", "t", "t", "p", ":">>,
     <<"h", "t", "t", "p", "s", ":", "/">>,
     <<"H", "T", "T", "P", "S", ":", "/", "/">>,
     <<"f", "t", "p", ":", "/", "/">>}

Urls == {p \o t : p \in Prefixes, t \in Chars({"j", "/", ":"}, MaxTail)}

InitUrl == InitWith({[Full EXCEPT !.JIRA_URL = u] : u \in OptText(Urls)})

NextUrl ==
    \/ Call_get_issue_transitions(1, Lean)
    \/ Get_session(1)
    \/ Get_base_url(1)
    \/ Get_send(1)

SpecUrl == InitUrl /\ [][NextUrl]_vars

\* ----------------------------------------------------------------- claims

Active(i) == inv[i].pc # "idle"

\* The spec's table (section 4.4): the optional text arguments, the path
\* arguments, the defaults, the path templates.
OptionalText(tool) ==
    {"fields", "expand", "project_key_or_id", "board_type", "name", "state"}
        \cup (IF tool = "list_projects" THEN {"query"} ELSE {})

PathArgs == {a \in DOMAIN ArgKey : ArgKey[a] = None}

Defaulted == {"max_results", "start_at", "order_by"}

TableDefault(tool, a) ==
    CASE a = "max_results" -> IF tool = "search_users" THEN 10 ELSE 50
      [] a = "start_at" -> 0
      [] a = "order_by" -> <<"-created">>

Decimal == (-3 :> <<"-", "3">>) @@ (45 :> <<"4", "5">>)

TablePath(tool, args) ==
    CASE tool = "search_issues" -> <<"/rest/api/3/search/jql">>
      [] tool = "get_issue" -> <<"/rest/api/3/issue/">> \o args.issue_key[1]
      [] tool = "get_issue_comments" ->
             <<"/rest/api/3/issue/">> \o args.issue_key[1] \o <<"/comment">>
      [] tool = "get_issue_changelog" ->
             <<"/rest/api/3/issue/">> \o args.issue_key[1] \o <<"/changelog">>
      [] tool = "get_issue_transitions" ->
             <<"/rest/api/3/issue/">> \o args.issue_key[1] \o <<"/transitions">>
      [] tool = "list_projects" -> <<"/rest/api/3/project/search">>
      [] tool = "list_boards" -> <<"/rest/agile/1.0/board">>
      [] tool = "list_sprints" ->
             <<"/rest/agile/1.0/board/">> \o Decimal[args.board_id[1]] \o <<"/sprint">>
      [] tool = "get_sprint_issues" ->
             <<"/rest/agile/1.0/sprint/">> \o Decimal[args.sprint_id[1]] \o <<"/issue">>
      [] tool = "search_users" -> <<"/rest/api/3/user/search">>

\* What the tool function named `tool` hands to _get for the arguments args.
ToolRequest(tool, args) ==
    CASE tool = "search_issues" ->
             search_issues(args.jql[1], args.fields, args.max_results, args.start_at)
      [] tool = "get_issue" -> get_issue(args.issue_key[1], args.fields, args.expand)
      [] tool = "get_issue_comments" ->
             get_issue_comments(args.issue_key[1], args.max_results, args.start_at,
                                args.order_by)
      [] tool = "get_issue_changelog" ->
             get_issue_changelog(args.issue_key[1], args.max_results, args.start_at)
      [] tool = "get_issue_transitions" -> get_issue_transitions(args.issue_key[1])
      [] tool = "list_projects" ->
             list_projects(args.query, args.max_results, args.start_at)
      [] tool = "list_boards" ->
             list_boards(args.project_key_or_id, args.board_type, args.name,
                         args.max_results, args.start_at)
      [] tool = "list_sprints" ->
             list_sprints(args.board_id[1], args.state, args.max_results, args.start_at)
      [] tool = "get_sprint_issues" ->
             get_sprint_issues(args.sprint_id[1], args.fields, args.max_results,
                               args.start_at)
      [] tool = "search_users" -> search_users(args.query[1], args.max_results)

\* The optional text arguments of invocation i.
OptionalOf(i) == OptionalText(inv[i].tool) \cap DOMAIN inv[i].args

\* The params a frame handed to _get, and those of the request it sent.
ParamsSeen(i) ==
    {inv[i].params} \cup (IF inv[i].request = None THEN {} ELSE {inv[i].request[1].params})

\* C1: an optional parameter left unset (None) has no key in the params
\* handed to _get, nor in those of the request sent.
C1_UnsetOmitted ==
    \A i \in Threads :
        Active(i) =>
            \A a \in OptionalOf(i) :
                inv[i].args[a] = None =>
                    \A p \in ParamsSeen(i) : ArgKey[a][1] \notin DOMAIN p

C1_Witness ==
    \E i \in Threads :
        /\ inv[i].pc = "sent"
        /\ inv[i].tool = "list_boards"
        /\ inv[i].args.name = None
        /\ inv[i].args.board_type = None
        /\ inv[i].args.project_key_or_id = Some(<<"summary,status">>)

\* C2: with JIRA_URL, JIRA_EMAIL or JIRA_API_TOKEN absent, an invocation
\* gets no further than raising the configuration error, and no HTTP request
\* is issued.
C2_ConfigErrorBeforeRequest ==
    (\E n \in Names : environ[n] = None) =>
        /\ log = EmptyBag
        /\ \A i \in Threads :
               Active(i) =>
                   /\ inv[i].pc \in {"called", "session", "error"}
                   /\ inv[i].request = None
                   /\ inv[i].pc = "error" =>
                          inv[i].error \in {RuntimeError_url, RuntimeError_auth}

C2_Witness ==
    /\ environ.JIRA_URL = None
    /\ Truthy(environ.JIRA_EMAIL)
    /\ Truthy(environ.JIRA_API_TOKEN)
    /\ \E i \in Threads :
           /\ inv[i].pc = "error"
           /\ inv[i].error = RuntimeError_url
           /\ inv[i].session # None
    /\ log = EmptyBag

\* A reply whose status raises leaves the invocation before or at the
\* error: HTTPError, no decoding of the body, no value.
Refused(i) ==
    /\ inv[i].pc \in {"received", "error"}
    /\ inv[i].pc = "error" => inv[i].error = "HTTPError"
    /\ ~inv[i].decoded
    /\ inv[i].result = None

\* C3 as stated: every reply with a status outside 200..299 raises, is not
\* decoded, and the call returns no data.
C3_Non2xxRaises ==
    \A i \in Threads :
        (inv[i].reply # None /\ inv[i].reply[1].status \notin 200..299) => Refused(i)

\* C3 as amended: every reply with a status in 400..599 raises, is not
\* decoded, and the call returns no data.
C3_ErrorStatusRaises ==
    \A i \in Threads :
        (inv[i].reply # None /\ inv[i].reply[1].status \in 400..599) => Refused(i)

C3_Witness ==
    \E i \in Threads :
        /\ inv[i].pc = "error"
        /\ inv[i].error = "HTTPError"
        /\ inv[i].reply[1] = [status |-> 404, body |-> "<html>"]

\* Argument a of invocation i is in the params under its query key, with
\* the caller's value; or with the table's default.
SentAsGiven(i, a) ==
    /\ ArgKey[a][1] \in DOMAIN inv[i].params
    /\ inv[i].params[ArgKey[a][1]] = inv[i].args[a][1]

SentAsDefault(i, a) ==
    /\ ArgKey[a][1] \in DOMAIN inv[i].params
    /\ inv[i].params[ArgKey[a][1]] = TableDefault(inv[i].tool, a)

\* The query arguments of invocation i, and the keys the table allows it.
QueryArgs(i) == DOMAIN inv[i].args \ PathArgs

OnTable(i) ==
    /\ inv[i].path = TablePath(inv[i].tool, inv[i].args)
    /\ DOMAIN inv[i].params \subseteq {ArgKey[a][1] : a \in QueryArgs(i)}
    /\ inv[i].request # None => inv[i].request[1].params = inv[i].params

\* C6 as stated: the path is the table's template with the path argument
\* substituted; every argument the caller supplies is sent under its query
\* key unchanged; an omitted maxResults, startAt or orderBy is sent with its
\* default.
C6_EverySuppliedValueSent ==
    \A i \in Threads :
        Active(i) =>
            /\ OnTable(i)
            /\ \A a \in QueryArgs(i) :
                   IF inv[i].args[a] # None
                   THEN SentAsGiven(i, a)
                   ELSE a \in Defaulted => SentAsDefault(i, a)

\* C6 as amended: the same, except that an optional text argument supplied
\* as the empty string is not sent.
C6_EveryNonEmptyValueSent ==
    \A i \in Threads :
        Active(i) =>
            /\ OnTable(i)
            /\ \A a \in QueryArgs(i) :
                   IF inv[i].args[a] # None
                   THEN (a \in OptionalText(inv[i].tool) /\ inv[i].args[a] = Some(<<>>))
                            \/ SentAsGiven(i, a)
                   ELSE a \in Defaulted => SentAsDefault(i, a)

C6_Witness ==
    \E i \in Threads :
        /\ inv[i].pc = "sent"
        /\ inv[i].tool = "search_issues"
        /\ inv[i].args.max_results = Some(200)
        /\ inv[i].args.start_at = None
        /\ inv[i].request[1].params.maxResults = 200
        /\ inv[i].request[1].params.startAt = 0

\* C7: a value returned for a 2xx reply is the decoded JSON body of that
\* reply, and a 2xx reply ends in an error only when its body does not
\* decode.
C7_ReturnsDecodedBody ==
    \A i \in Threads :
        (inv[i].reply # None /\ inv[i].reply[1].status \in 200..299) =>
            /\ inv[i].pc = "returned" =>
                   /\ json(inv[i].reply[1].body).ok
                   /\ inv[i].result = Some(json(inv[i].reply[1].body).val)
            /\ inv[i].pc = "error" => ~json(inv[i].reply[1].body).ok

C7_Witness ==
    \E i \in Threads :
        /\ inv[i].pc = "returned"
        /\ inv[i].reply[1].status = 200
        /\ inv[i].result = Some([total |-> 1, isLast |-> TRUE])

\* The requests invocation id has issued.
Issued(id) == CopiesIn([id |-> id, method |-> "GET"], log)

Alone(e, rq, answer) ==
    IF session_raises(e) THEN [request |-> None, result |-> None, error |-> RuntimeError_auth]
    ELSE IF base_url_raises(e) THEN [request |-> None, result |-> None, error |-> RuntimeError_url]
    ELSE LET sent == Some([params |-> rq.params,
                           auth |-> <<e.JIRA_EMAIL[1], e.JIRA_API_TOKEN[1]>>,
                           headers |-> [Accept |-> "application/json"],
                           method |-> "GET",
                           url |-> base_url_value(e) \o rq.path])
         IN  IF answer = None
             THEN [request |-> sent, result |-> None, error |-> "ConnectionError"]
             ELSE IF raise_for_status(answer[1].status)
             THEN [request |-> sent, result |-> None, error |-> "HTTPError"]
             ELSE IF ~json(answer[1].body).ok
             THEN [request |-> sent, result |-> None, error |-> "JSONDecodeError"]
             ELSE [request |-> sent, result |-> Some(json(answer[1].body).val), error |-> ""]

\* The request of a frame without the identity of its Session object.
Wire(request) ==
    IF request = None THEN None
    ELSE Some([params |-> request[1].params, auth |-> request[1].auth,
               headers |-> request[1].headers, method |-> request[1].method,
               url |-> request[1].url])

\* C9: in every interleaving, an invocation uses a Session no other frame
\* holds, sends through it, and its request and outcome are those of the
\* same call running alone.
C9_Isolated ==
    \A i \in Threads :
        Active(i) =>
            /\ inv[i].session # None =>
                   \A j \in Threads \ {i} :
                       inv[j].session # None =>
                           inv[j].session[1].sid # inv[i].session[1].sid
            /\ inv[i].request # None => inv[i].request[1].sid = inv[i].session[1].sid
            /\ inv[i].pc \in {"returned", "error"} =>
                   LET solo == Alone(environ, ToolRequest(inv[i].tool, inv[i].args),
                                     inv[i].reply)
                   IN  /\ Wire(inv[i].request) = solo.request
                       /\ inv[i].result = solo.result
                       /\ inv[i].error = solo.error

C9_Witness ==
    \E i, j \in Threads :
        /\ i # j
        /\ inv[i].pc = "sent"
        /\ inv[j].pc = "received"
        /\ inv[i].tool = "search_issues"
        /\ inv[j].tool = "list_sprints"
        /\ inv[i].id > inv[j].id

\* C10: an optional text argument given as "" is dropped like an unset one
\* (no key, the same path and params as with None), while an empty jql or
\* an empty search_users query is sent under its key.
C10_EmptyOptionalDropped ==
    \A i \in Threads :
        Active(i) =>
            /\ \A a \in OptionalOf(i) :
                   inv[i].args[a] = Some(<<>>) =>
                       /\ \A p \in ParamsSeen(i) : ArgKey[a][1] \notin DOMAIN p
                       /\ Request(inv[i].path, inv[i].params) =
                              ToolRequest(inv[i].tool, [inv[i].args EXCEPT ![a] = None])
            /\ (inv[i].tool = "search_issues" /\ inv[i].args.jql = Some(<<>>)) =>
                   \A p \in ParamsSeen(i) : "jql" \in DOMAIN p /\ p.jql = <<>>
            /\ (inv[i].tool = "search_users" /\ inv[i].args.query = Some(<<>>)) =>
                   \A p \in ParamsSeen(i) : "query" \in DOMAIN p /\ p.query = <<>>

C10_Witness ==
    \E i \in Threads :
        /\ inv[i].pc = "sent"
        /\ inv[i].tool = "get_issue"
        /\ inv[i].args.fields = Some(<<>>)
        /\ inv[i].args.expand = Some(<<"summary,status">>)
        /\ DOMAIN inv[i].request[1].params = {"expand"}

HasScheme(url) == startswith(url, https) \/ startswith(url, http)

\* C4: whenever base-URL resolution succeeds, the resolved base URL begins
\* with "http://" or "https://" and does not end with "/".
C4_BaseUrlNormalized ==
    \A i \in Threads :
        inv[i].base # None =>
            /\ HasScheme(inv[i].base[1])
            /\ inv[i].base[1][Len(inv[i].base[1])] # "/"

\* C5: resolving again from the resolved base URL yields the same text as
\* resolving once.
C5_BaseUrlIdempotent ==
    \A i \in Threads :
        inv[i].base # None =>
            _base_url([environ EXCEPT !.JIRA_URL = inv[i].base]) =
                [ok |-> TRUE, val |-> inv[i].base[1]]

=============================================================================
